---- MODULE Spec2Model ----
(***************************************************************************)
(* PaymentRequest / PaymentRequestUpdateEvent / NativePayments of          *)
(* react-native-payments, as a state machine of one request instance.      *)
(*                                                                         *)
(* One action is one run-to-completion piece of JavaScript: a public call  *)
(* up to its first suspension, the delivery of a DeviceEventEmitter        *)
(* signal to the handler the request subscribed, or the settlement of an   *)
(* adapter promise together with the promise reactions chained on it.      *)
(* The reactions of one chain (.then(_resetEvent).then(...).catch(...))    *)
(* run back to back in one step.  Adapter calls settle in any order and    *)
(* signals arrive whenever their subscription is active.                   *)
(***************************************************************************)
EXTENDS Integers, Sequences, FiniteSets, TLC

(* ------------------------------ bounds -------------------------------- *)
MaxShows == 2            \* show() calls per behaviour
MaxAborts == 2           \* abort() calls per behaviour
MaxEvents == 2           \* PaymentRequestUpdateEvent objects per behaviour
MaxAddressChanges == 2   \* shipping-address-changed signals per behaviour
MaxCanMakePayments == 1  \* canMakePayments() calls per behaviour

(* ------------------------------ values -------------------------------- *)
null == "null"
RequestId == "req-1"
Platforms == {"ios", "android"}
Addresses == {"addr1"}
OptionIds == {"std", "exp"}

\* PaymentDetailsInit, reduced to the members the code under study reads:
\* total.amount.value (an integer amount) and the ids of shippingOptions.
DetailsA == [total |-> 10, shippingOptions |-> <<"std", "exp">>]
DetailsB == [total |-> 20, shippingOptions |-> <<"exp", "std">>]
DetailsNoOptions == [total |-> 30, shippingOptions |-> <<>>]
DetailsNegative == [total |-> -5, shippingOptions |-> <<"std">>]
DetailsDuplicate == [total |-> 10, shippingOptions |-> <<"std", "std">>]

InitialDetails == {DetailsA, DetailsNoOptions}
UpdateDetails == {DetailsB, DetailsNoOptions, DetailsNegative, DetailsDuplicate}

\* user-accept payloads: the address, whether paymentData is JSON that
\* parses, and whether transactionIdentifier is 'Simulated Identifier'
AcceptPayloads ==
  [shippingAddress : Addresses \cup {null}, paymentDataParses : BOOLEAN,
   isSimulator : BOOLEAN]

\* what a caller-registered listener does with the event it is handed: it
\* keeps the event, or calls updateWith with a promise or with details; and
\* whether it throws an exception of its own after that call has returned
ListenerChoices ==
  {[kind |-> "none", value |-> DetailsA, throws |-> FALSE]}
    \cup {[kind |-> "promise", value |-> DetailsA, throws |-> t] : t \in BOOLEAN}
    \cup {[kind |-> "object", value |-> d, throws |-> FALSE] : d \in UpdateDetails}

VARIABLES
  platform,                     \* Platform.OS
  requestShipping,              \* _options.requestShipping
  state,                        \* _state
  updating,                     \* _updating
  details,                      \* _details
  shippingAddress,              \* shippingAddress
  shippingOption,               \* shippingOption
  shippingAddressChangesCount,  \* _shippingAddressChangesCount
  promises,                     \* every promise show() has allocated
  acceptPromiseResolver,        \* promise _acceptPromiseResolver/_acceptPromiseRejecter settle (0: undefined)
  nativeShow,                   \* the NativePayments.show call and the reject it was chained to
  subscriptions,                \* active DeviceEventEmitter subscriptions
  shippingAddressChangeFn,      \* a listener is registered
  shippingOptionChangeFn,       \* a listener is registered
  aborts,                       \* every abort() call
  events,                       \* every PaymentRequestUpdateEvent handed out
  canMakePaymentsPromises,      \* every promise canMakePayments() has returned
  other,                        \* a second PaymentRequest of the same process
  lastCall                      \* what the step just taken ran and how it returned

vars ==
  <<platform, requestShipping, state, updating, details, shippingAddress,
    shippingOption, shippingAddressChangesCount, promises,
    acceptPromiseResolver, nativeShow, subscriptions, shippingAddressChangeFn,
    shippingOptionChangeFn, aborts, events, canMakePaymentsPromises, other, lastCall>>

IS_IOS == platform = "ios"
IS_ANDROID == platform = "android"

\* lastCall: what the step just taken ran, when it was an updateWith call
\* (ev: its event), an abort() call up to its await (ev: its index in
\* aborts), a stopRequest() call or the delivery of a user-dismiss or
\* user-accept signal, and how that returned; NoCall after any other step
Returned(op, ev, outcome) == [op |-> op, ev |-> ev, outcome |-> outcome]
NoCall == Returned("none", 0, "none")

(* ----------------------------- validation ----------------------------- *)
validateTotal(total) == total >= 0

validateShippingOptions(options) ==
  \A i, j \in 1..Len(options) : options[i] = options[j] => i = j

getSelectedShippingOption(options) ==
  IF Len(options) = 0 THEN null ELSE options[1]

(* ----------------------------- construction --------------------------- *)
SetupEventListeners(os) ==
  {"userdismiss", "useraccept"}
    \cup (IF os = "ios" THEN {"shippingoptionchange", "shippingaddresschange"} ELSE {})

\* the second instance, as far as the signals reach it: its _state ("none":
\* not constructed), its subscriptions, its shipping fields, its
\* accept-promise ("none": show() not called), whether it has listeners
\* and whether one of them was called
NoInstance ==
  [state |-> "none", subscriptions |-> {}, shippingAddress |-> null,
   shippingOption |-> null, shippingAddressChangesCount |-> 0,
   promise |-> "none", listeners |-> FALSE, listenerCalled |-> FALSE]

Init ==
  /\ platform \in Platforms
  /\ requestShipping \in BOOLEAN
  /\ details \in InitialDetails
  /\ state = "created"
  /\ updating = FALSE
  /\ shippingOption =
       (IF platform = "ios" THEN getSelectedShippingOption(details.shippingOptions)
        ELSE null)
  /\ shippingAddress = null
  /\ subscriptions = SetupEventListeners(platform)
  /\ shippingAddressChangesCount = 0
  /\ promises = <<>>
  /\ acceptPromiseResolver = 0
  /\ nativeShow = [status |-> "none", promise |-> 0]
  /\ shippingAddressChangeFn = FALSE
  /\ shippingOptionChangeFn = FALSE
  /\ aborts = <<>>
  /\ events = <<>>
  /\ canMakePaymentsPromises = <<>>
  /\ other = NoInstance
  /\ lastCall = NoCall

(* ------------------------- promise bookkeeping ------------------------ *)
NoResponse == [requestId |-> null, shippingAddress |-> null, shippingOption |-> null]

NewPromise == [status |-> "pending", response |-> NoResponse]

\* settling a promise that is already settled has no effect
Reject(ps, p, reason) ==
  IF p # 0 /\ ps[p].status = "pending"
  THEN [ps EXCEPT ![p].status = reason]
  ELSE ps

Resolve(ps, p, response) ==
  IF p # 0 /\ ps[p].status = "pending"
  THEN [ps EXCEPT ![p].status = "fulfilled", ![p].response = response]
  ELSE ps

(* --------------------------- canMakePayments -------------------------- *)
\* the promise of NativePayments.canMakePayments as its executor leaves it:
\* on Android the executor returns without calling resolve or reject, and
\* nothing else holds them; on iOS it resolves before it returns
NativeCanMakePayments(os) ==
  IF os = "android" THEN "pending" ELSE "fulfilled"

\* canMakePayments(): hands back the adapter's promise
CanMakePayments ==
  /\ Len(canMakePaymentsPromises) < MaxCanMakePayments
  /\ canMakePaymentsPromises' =
       Append(canMakePaymentsPromises, NativeCanMakePayments(platform))
  /\ lastCall' = NoCall
  /\ UNCHANGED <<other, platform, requestShipping, state, updating, details,
                 shippingAddress, shippingOption, shippingAddressChangesCount,
                 promises, acceptPromiseResolver, nativeShow, subscriptions,
                 shippingAddressChangeFn, shippingOptionChangeFn, aborts, events>>

(* -------------------------------- show -------------------------------- *)
\* show() that is never turned away
ShowAllowedInAnyState(st) == TRUE

\* show() that is turned away only once the request is closed
ShowAllowedUnlessClosed(st) == st # "closed"

ShowAllowed(st) == st = "created"

Show ==
  /\ Len(promises) < MaxShows
  /\ LET p == Len(promises) + 1
         allocated == Append(promises, NewPromise)
     IN /\ acceptPromiseResolver' = p
        /\ IF ~ShowAllowed(state)
           THEN /\ promises' = Reject(allocated, p, "InvalidStateError")
                /\ lastCall' = NoCall
                /\ UNCHANGED <<state, nativeShow>>
           ELSE /\ promises' = allocated
                /\ state' = "interactive"
                /\ nativeShow' = [status |-> "pending", promise |-> p]
                /\ lastCall' = NoCall
  /\ UNCHANGED <<other, canMakePaymentsPromises, platform, requestShipping, updating, details, shippingAddress,
                 shippingOption, shippingAddressChangesCount, subscriptions,
                 shippingAddressChangeFn, shippingOptionChangeFn, aborts, events>>

\* NativePayments.show(...) resolves: nothing is chained on fulfilment
NativeShowResolves ==
  /\ nativeShow.status = "pending"
  /\ nativeShow' = [nativeShow EXCEPT !.status = "settled"]
  /\ lastCall' = NoCall
  /\ UNCHANGED <<other, canMakePaymentsPromises, platform, requestShipping, state, updating, details,
                 shippingAddress, shippingOption, shippingAddressChangesCount,
                 promises, acceptPromiseResolver, subscriptions,
                 shippingAddressChangeFn, shippingOptionChangeFn, aborts, events>>

\* NativePayments.show(...) rejects: .catch(reject) of the promise show() built
NativeShowRejects ==
  /\ nativeShow.status = "pending"
  /\ nativeShow' = [nativeShow EXCEPT !.status = "settled"]
  /\ promises' = Reject(promises, nativeShow.promise, "AdapterError")
  /\ lastCall' = NoCall
  /\ UNCHANGED <<other, canMakePaymentsPromises, platform, requestShipping, state, updating, details,
                 shippingAddress, shippingOption, shippingAddressChangesCount,
                 acceptPromiseResolver, subscriptions, shippingAddressChangeFn,
                 shippingOptionChangeFn, aborts, events>>

(* ------------------------ _closePaymentRequest ------------------------ *)
\* _closePaymentRequest that removes the dismiss and accept subscriptions only
ClosedSubscriptionsOfBothPlatforms(subs, os) ==
  subs \ {"userdismiss", "useraccept"}

ClosedSubscriptions(subs, os) ==
  (subs \ {"userdismiss", "useraccept"})
    \ (IF os = "ios" THEN {"shippingaddresschange", "shippingoptionchange"} ELSE {})

ClosedPromises(ps, rejecter, reject) ==
  IF reject THEN Reject(ps, rejecter, "AbortError") ELSE ps

\* DeviceEventEmitter hands a signal to every subscription of its name, and
\* the names are the same for all instances: the second instance runs the
\* same handler on the same signal. Here _closePaymentRequest().
OtherDismiss(o, os) ==
  IF "userdismiss" \notin o.subscriptions THEN o
  ELSE [o EXCEPT !.state = "closed",
                 !.promise = IF @ = "pending" THEN "AbortError" ELSE @,
                 !.subscriptions = ClosedSubscriptions(@, os)]

\* the user-dismiss signal: _closePaymentRequest() with reject defaulted to true
UserDismiss ==
  /\ "userdismiss" \in subscriptions
  /\ state' = "closed"
  /\ promises' = ClosedPromises(promises, acceptPromiseResolver, TRUE)
  /\ subscriptions' = ClosedSubscriptions(subscriptions, platform)
  /\ lastCall' = Returned("userdismiss", 0, "ok")
  /\ other' = OtherDismiss(other, platform)
  /\ UNCHANGED <<canMakePaymentsPromises, platform, requestShipping, updating, details, shippingAddress,
                 shippingOption, shippingAddressChangesCount,
                 acceptPromiseResolver, nativeShow, shippingAddressChangeFn,
                 shippingOptionChangeFn, aborts, events>>

StopRequest ==
  /\ IF state # "closed"
     THEN /\ state' = "closed"
          /\ promises' = ClosedPromises(promises, acceptPromiseResolver, FALSE)
          /\ subscriptions' = ClosedSubscriptions(subscriptions, platform)
     ELSE UNCHANGED <<state, promises, subscriptions>>
  /\ lastCall' = Returned("stopRequest", 0, IF state # "closed" THEN "closed" ELSE "none")
  /\ UNCHANGED <<other, canMakePaymentsPromises, platform, requestShipping, updating, details, shippingAddress,
                 shippingOption, shippingAddressChangesCount,
                 acceptPromiseResolver, nativeShow, shippingAddressChangeFn,
                 shippingOptionChangeFn, aborts, events>>

(* -------------------------------- abort ------------------------------- *)
\* abort() that is turned away only once the request is closed
AbortAllowedUnlessClosed(st) == st # "closed"

AbortAllowed(st) == st = "interactive"

\* abort() up to `await NativePayments.abort()`
Abort ==
  /\ Len(aborts) < MaxAborts
  /\ IF ~AbortAllowed(state)
     THEN /\ aborts' = Append(aborts, [status |-> "InvalidStateError", adapter |-> "none"])
          /\ lastCall' = Returned("abort", Len(aborts) + 1, "InvalidStateError")
     ELSE /\ aborts' = Append(aborts, [status |-> "pending", adapter |-> "pending"])
          /\ lastCall' = Returned("abort", Len(aborts) + 1, "pending")
  /\ UNCHANGED <<other, canMakePaymentsPromises, platform, requestShipping, state, updating, details,
                 shippingAddress, shippingOption, shippingAddressChangesCount,
                 promises, acceptPromiseResolver, nativeShow, subscriptions,
                 shippingAddressChangeFn, shippingOptionChangeFn, events>>

\* how abort() settles once the adapter's dismiss has failed
AbortCatch == "fulfilled"

\* NativePayments.abort() resolves and abort() resumes after the await
NativeAbortResolves(a) ==
  /\ aborts[a].adapter = "pending"
  /\ aborts' = [aborts EXCEPT ![a] = [status |-> "fulfilled", adapter |-> "ok"]]
  /\ state' = "closed"
  /\ promises' = ClosedPromises(promises, acceptPromiseResolver, TRUE)
  /\ subscriptions' = ClosedSubscriptions(subscriptions, platform)
  /\ lastCall' = NoCall
  /\ UNCHANGED <<other, canMakePaymentsPromises, platform, requestShipping, updating, details, shippingAddress,
                 shippingOption, shippingAddressChangesCount,
                 acceptPromiseResolver, nativeShow, shippingAddressChangeFn,
                 shippingOptionChangeFn, events>>

\* NativePayments.abort() rejects (never on Android, which resolves at once)
NativeAbortRejects(a) ==
  /\ ~IS_ANDROID
  /\ aborts[a].adapter = "pending"
  /\ aborts' = [aborts EXCEPT ![a] = [status |-> AbortCatch, adapter |-> "failed"]]
  /\ lastCall' = NoCall
  /\ UNCHANGED <<other, canMakePaymentsPromises, platform, requestShipping, state, updating, details,
                 shippingAddress, shippingOption, shippingAddressChangesCount,
                 promises, acceptPromiseResolver, nativeShow, subscriptions,
                 shippingAddressChangeFn, shippingOptionChangeFn, events>>

(* ------------------------------ user accept --------------------------- *)
\* how _getPlatformDetails returns: it throws 'Not implemented' off iOS, and
\* the SyntaxError of JSON.parse(paymentData) for a non-simulator payload
\* whose paymentData is not JSON
GetPlatformDetails(os, payload) ==
  IF os # "ios" THEN "NotImplemented"
  ELSE IF ~payload.isSimulator /\ ~payload.paymentDataParses THEN "SyntaxError"
  ELSE "ok"

\* a response that carries the address whatever _options.requestShipping is
PaymentResponseWithAddress(address, option) ==
  [requestId |-> RequestId,
   shippingAddress |-> address,
   shippingOption |-> IF IS_IOS THEN option ELSE null]

PaymentResponse(address, option) ==
  [requestId |-> RequestId,
   shippingAddress |-> IF requestShipping THEN address ELSE null,
   shippingOption |-> IF IS_IOS THEN option ELSE null]

\* _handleUserAccept(details) of the second instance
OtherAccept(o, os, payload) ==
  IF "useraccept" \notin o.subscriptions THEN o
  ELSE [o EXCEPT !.shippingAddress = IF os = "android" THEN payload.shippingAddress ELSE @,
                 !.promise = IF @ = "pending" /\ GetPlatformDetails(os, payload) = "ok"
                             THEN "fulfilled" ELSE @]

\* _handleUserAccept that closes the request
AcceptedStateClosed(st) == "closed"

\* _state after _handleUserAccept, which does not assign it
AcceptedState(st) == st

\* the user-accept signal: _handleUserAccept(details)
UserAccept(payload) ==
  /\ "useraccept" \in subscriptions
  /\ state' = AcceptedState(state)
  /\ shippingAddress' = (IF IS_ANDROID THEN payload.shippingAddress ELSE shippingAddress)
  /\ IF GetPlatformDetails(platform, payload) # "ok"
     THEN /\ UNCHANGED promises
          /\ lastCall' = Returned("useraccept", 0, GetPlatformDetails(platform, payload))
     ELSE /\ promises' = Resolve(promises, acceptPromiseResolver,
                                 PaymentResponse(shippingAddress', shippingOption))
          /\ lastCall' = Returned("useraccept", 0, "ok")
  /\ other' = OtherAccept(other, platform, payload)
  /\ UNCHANGED <<canMakePaymentsPromises, platform, requestShipping, updating, details,
                 shippingOption, shippingAddressChangesCount,
                 acceptPromiseResolver, nativeShow, subscriptions,
                 shippingAddressChangeFn, shippingOptionChangeFn, aborts, events>>

(* --------------------------- addEventListener ------------------------- *)
AddEventListener(name) ==
  /\ \/ name = "shippingaddresschange" /\ ~shippingAddressChangeFn
     \/ name = "shippingoptionchange" /\ ~shippingOptionChangeFn
  /\ shippingAddressChangeFn' = (shippingAddressChangeFn \/ name = "shippingaddresschange")
  /\ shippingOptionChangeFn' = (shippingOptionChangeFn \/ name = "shippingoptionchange")
  /\ lastCall' = NoCall
  /\ UNCHANGED <<other, canMakePaymentsPromises, platform, requestShipping, state, updating, details,
                 shippingAddress, shippingOption, shippingAddressChangesCount,
                 promises, acceptPromiseResolver, nativeShow, subscriptions,
                 aborts, events>>

(* ---------------------- PaymentRequestUpdateEvent --------------------- *)
\* constructor, for a name it accepts (nothing reads this.name afterwards,
\* so the record does not keep it); `caller` tells whether caller code holds
\* a reference to the event, `before` remembers, while a negotiation of the
\* event is pending, _details as they were when updateWith was called
\* (NoDetails at any other time)
NoDetails == [total |-> 0, shippingOptions |-> <<>>]

NewEvent(name, caller) ==
  [caller |-> caller, waitForUpdate |-> FALSE, phase |-> "fired",
   result |-> "none", cause |-> "none", before |-> NoDetails]

\* _resetEvent without its step 2
ResetEventKeepingUpdating(evs, e, upd) ==
  [events |-> [evs EXCEPT ![e].waitForUpdate = FALSE], updating |-> upd]

\* _resetEvent
ResetEvent(evs, e, upd) ==
  [events |-> [evs EXCEPT ![e].waitForUpdate = FALSE], updating |-> FALSE]

\* the three validations at the head of _handleDetailsChange
Validate(value) ==
  /\ validateTotal(value.total)
  /\ validateShippingOptions(value.shippingOptions)

\* _details once the value has passed validation
AcceptedDetails(det, value) == value

\* _handleDetailsChange up to the call of NativePayments.handleDetailsUpdate
HandleDetailsChange(evs, e, value, det) ==
  IF ~Validate(value)
  THEN [events |-> [evs EXCEPT ![e].phase = "settled",
                               ![e].result = "DOMException",
                               ![e].cause = "validation",
                               ![e].before = NoDetails],
        details |-> det, threw |-> TRUE]
  ELSE [events |-> [evs EXCEPT ![e].phase = "waitAdapter"],
        details |-> AcceptedDetails(det, value), threw |-> FALSE]

\* steps 5 to 7 of updateWith
UpdateWithRefused(ev, st, upd) ==
  \/ ev.waitForUpdate = TRUE
  \/ st # "interactive"
  \/ upd = TRUE

\* updateWith(arg) on event e; outcome is how the call returns
UpdateWith(evs, e, arg, st, upd, det) ==
  IF UpdateWithRefused(evs[e], st, upd)
  THEN [events |-> evs, updating |-> upd, details |-> det,
        outcome |-> "InvalidStateError"]
  ELSE LET waiting == [evs EXCEPT ![e].waitForUpdate = TRUE, ![e].before = det,
                                ![e].result = "none", ![e].cause = "none"]
       IN IF arg.kind = "promise"
          THEN [events |-> [waiting EXCEPT ![e].phase = "waitPromise"],
                updating |-> TRUE, details |-> det, outcome |-> "accepted"]
          ELSE LET h == HandleDetailsChange(waiting, e, arg.value, det)
               IN [events |-> h.events, updating |-> TRUE, details |-> h.details,
                   outcome |-> IF h.threw THEN "DOMException" ELSE "accepted"]

Threw(outcome) == outcome \in {"InvalidStateError", "DOMException"}

\* fn?.(event): the listener, when one is registered, keeps the event
\* (choice.kind = "none") or calls updateWith on it before it returns
CallListener(fn, evs, name, choice, st, upd, det) ==
  IF ~fn
  THEN [events |-> evs, updating |-> upd, details |-> det, outcome |-> "nolistener"]
  ELSE LET handed == Append(evs, NewEvent(name, TRUE))
       IN IF choice.kind = "none"
          THEN [events |-> handed, updating |-> upd, details |-> det, outcome |-> "held"]
          ELSE UpdateWith(handed, Len(handed), choice, st, upd, det)

ListenerCall(evs, outcome) ==
  IF outcome \in {"nolistener", "held"} THEN NoCall ELSE Returned("updateWith", Len(evs), outcome)

\* the choices that matter when no listener is registered
ChoiceFor(fn) ==
  IF fn THEN ListenerChoices ELSE {[kind |-> "none", value |-> DetailsA, throws |-> FALSE]}

(* --------------------------- second instance -------------------------- *)
\* _handleShippingAddressChange(postalAddress) of the second instance; the
\* negotiation its first iOS call starts is left out
OtherShippingAddressChange(o, os, address) ==
  IF "shippingaddresschange" \notin o.subscriptions THEN o
  ELSE [o EXCEPT !.shippingAddress = address,
                 !.shippingAddressChangesCount = 1,
                 !.listenerCalled =
                   @ \/ (o.listeners /\ ~(os = "ios" /\ o.shippingAddressChangesCount = 0))]

\* _handleShippingOptionChange({selectedShippingOptionId}) of the second instance
OtherShippingOptionChange(o, id) ==
  IF "shippingoptionchange" \notin o.subscriptions THEN o
  ELSE [o EXCEPT !.shippingOption = id, !.listenerCalled = @ \/ o.listeners]

\* new PaymentRequest(...) a second time in the process, followed or not by
\* addEventListener for both names and by show()
ConstructOther(det, listeners, shown) ==
  /\ other.state = "none"
  /\ other' = [state |-> IF shown THEN "interactive" ELSE "created",
               subscriptions |-> SetupEventListeners(platform),
               shippingAddress |-> null,
               shippingOption |-> IF platform = "ios"
                                  THEN getSelectedShippingOption(det.shippingOptions)
                                  ELSE null,
               shippingAddressChangesCount |-> 0,
               promise |-> IF shown THEN "pending" ELSE "none",
               listeners |-> listeners,
               listenerCalled |-> FALSE]
  /\ lastCall' = NoCall
  /\ UNCHANGED <<canMakePaymentsPromises, platform, requestShipping, state, updating,
                 details, shippingAddress, shippingOption, shippingAddressChangesCount,
                 promises, acceptPromiseResolver, nativeShow, subscriptions,
                 shippingAddressChangeFn, shippingOptionChangeFn, aborts, events>>

(* ------------------------ shipping signal handlers -------------------- *)
\* _handleShippingAddressChange(postalAddress)
ShippingAddressChange(address, choice) ==
  /\ "shippingaddresschange" \in subscriptions
  /\ shippingAddressChangesCount < MaxAddressChanges
  /\ shippingAddress' = address
  /\ shippingAddressChangesCount' = shippingAddressChangesCount + 1
  /\ IF IS_IOS /\ shippingAddressChangesCount' = 1
     THEN /\ Len(events) < MaxEvents
          /\ choice.kind = "none"
          /\ LET own == Append(events, NewEvent("shippingaddresschange", FALSE))
                 u == UpdateWith(own, Len(own),
                                 [kind |-> "object", value |-> details, throws |-> FALSE],
                                 state, updating, details)
             IN /\ events' = u.events
                /\ updating' = u.updating
                /\ details' = u.details
                /\ lastCall' = Returned("updateWith", Len(own), u.outcome)
     ELSE /\ shippingAddressChangeFn => Len(events) < MaxEvents
          /\ choice \in ChoiceFor(shippingAddressChangeFn)
          /\ LET c == CallListener(shippingAddressChangeFn, events,
                                   "shippingaddresschange", choice, state,
                                   updating, details)
             IN /\ events' = c.events
                /\ updating' = c.updating
                /\ details' = c.details
                /\ lastCall' = ListenerCall(c.events, c.outcome)
  /\ other' = OtherShippingAddressChange(other, platform, address)
  /\ UNCHANGED <<canMakePaymentsPromises, platform, requestShipping, state, shippingOption, promises,
                 acceptPromiseResolver, nativeShow, subscriptions,
                 shippingAddressChangeFn, shippingOptionChangeFn, aborts>>

\* the ids the native sheet can report: those of the options it was given
Selectable(det) == {det.shippingOptions[i] : i \in 1..Len(det.shippingOptions)}

\* _handleShippingOptionChange({selectedShippingOptionId}), on the signal
ShippingOptionChange(id, choice) ==
  /\ "shippingoptionchange" \in subscriptions
  /\ id \in Selectable(details)
  /\ shippingOptionChangeFn => Len(events) < MaxEvents
  /\ choice \in ChoiceFor(shippingOptionChangeFn)
  /\ shippingOption' = id
  /\ LET c == CallListener(shippingOptionChangeFn, events, "shippingoptionchange",
                           choice, state, updating, details)
     IN /\ events' = c.events
        /\ updating' = c.updating
        /\ details' = c.details
        /\ lastCall' = ListenerCall(c.events, c.outcome)
  /\ other' = OtherShippingOptionChange(other, id)
  /\ UNCHANGED <<canMakePaymentsPromises, platform, requestShipping, state, shippingAddress,
                 shippingAddressChangesCount, promises, acceptPromiseResolver,
                 nativeShow, subscriptions, shippingAddressChangeFn,
                 shippingOptionChangeFn, aborts>>

(* ------------------------- calls of updateWith ------------------------ *)
\* caller code calls updateWith on an event it was handed earlier
CallUpdateWith(e, arg) ==
  /\ events[e].caller
  /\ arg.kind # "none"
  /\ ~arg.throws
  /\ LET u == UpdateWith(events, e, arg, state, updating, details)
     IN /\ events' = u.events
        /\ updating' = u.updating
        /\ details' = u.details
        /\ lastCall' = Returned("updateWith", e, u.outcome)
  /\ UNCHANGED <<other, canMakePaymentsPromises, platform, requestShipping, state, shippingAddress,
                 shippingOption, shippingAddressChangesCount, promises,
                 acceptPromiseResolver, nativeShow, subscriptions,
                 shippingAddressChangeFn, shippingOptionChangeFn, aborts>>

\* caller code drops the last reference to an event that has no negotiation
\* pending, and the object is collected
ForgetEvent(e) ==
  /\ events[e].phase \notin {"waitPromise", "waitAdapter"}
  /\ events' = SubSeq(events, 1, e - 1) \o SubSeq(events, e + 1, Len(events))
  /\ lastCall' = NoCall
  /\ UNCHANGED <<other, canMakePaymentsPromises, platform, requestShipping, state, updating, details,
                 shippingAddress, shippingOption, shippingAddressChangesCount,
                 promises, acceptPromiseResolver, nativeShow, subscriptions,
                 shippingAddressChangeFn, shippingOptionChangeFn, aborts>>

(* --------------------- settlement of a negotiation -------------------- *)
Settled(evs, e, result, cause) ==
  [evs EXCEPT ![e].phase = "settled", ![e].result = result, ![e].cause = cause,
              ![e].before = NoDetails]

\* the promise given to updateWith fulfils: .then(this._handleDetailsChange)
DetailsPromiseResolves(e, value) ==
  /\ events[e].phase = "waitPromise"
  /\ LET h == HandleDetailsChange(events, e, value, details)
     IN /\ events' = h.events
        /\ details' = h.details
        /\ lastCall' = NoCall
  /\ UNCHANGED <<other, canMakePaymentsPromises, platform, requestShipping, state, updating, shippingAddress,
                 shippingOption, shippingAddressChangesCount, promises,
                 acceptPromiseResolver, nativeShow, subscriptions,
                 shippingAddressChangeFn, shippingOptionChangeFn, aborts>>

\* the promise given to updateWith rejects: no reaction is chained on that
DetailsPromiseRejects(e) ==
  /\ events[e].phase = "waitPromise"
  /\ events' = Settled(events, e, "Rejection", "promise")
  /\ lastCall' = NoCall
  /\ UNCHANGED <<other, canMakePaymentsPromises, platform, requestShipping, state, updating, details,
                 shippingAddress, shippingOption, shippingAddressChangesCount,
                 promises, acceptPromiseResolver, nativeShow, subscriptions,
                 shippingAddressChangeFn, shippingOptionChangeFn, aborts>>

\* the .catch at the end of the chain in _handleDetailsChange
CatchReset(evs, e, upd, cause) ==
  LET r == ResetEvent(evs, e, upd)
  IN [events |-> Settled(r.events, e, "AbortError", cause), updating |-> r.updating]

\* NativePayments.handleDetailsUpdate resolves: .then(_resetEvent), then the
\* iOS re-fire of _handleShippingOptionChange, and .catch when that throws.
\* catches: the listener swallows what its updateWith call throws;
\* choice.throws: it throws after its updateWith call has returned.
HandleDetailsUpdateResolves(e, choice, catches) ==
  /\ events[e].phase = "waitAdapter"
  /\ LET r == ResetEvent(events, e, updating)
         refire == IS_IOS /\ Len(details.shippingOptions) > 0
     IN IF ~refire
        THEN /\ choice.kind = "none" /\ ~catches
             /\ events' = Settled(r.events, e, "fulfilled", "none")
             /\ updating' = r.updating
             /\ lastCall' = NoCall
             /\ UNCHANGED <<details, shippingOption>>
        ELSE /\ shippingOptionChangeFn => Len(events) < MaxEvents
             /\ choice \in ChoiceFor(shippingOptionChangeFn)
             /\ shippingOption' = details.shippingOptions[1]
             /\ LET c == CallListener(shippingOptionChangeFn, r.events,
                                      "shippingoptionchange", choice, state,
                                      r.updating, details)
                    k == CatchReset(c.events, e, c.updating, "listener")
                IN /\ catches => Threw(c.outcome)
                   /\ IF (Threw(c.outcome) /\ ~catches) \/ choice.throws
                      THEN /\ events' = k.events
                           /\ updating' = k.updating
                      ELSE /\ events' = Settled(c.events, e, "fulfilled", "none")
                           /\ updating' = c.updating
                   /\ details' = c.details
                   /\ lastCall' = ListenerCall(c.events, c.outcome)
  /\ UNCHANGED <<other, canMakePaymentsPromises, platform, requestShipping, state, shippingAddress,
                 shippingAddressChangesCount, promises, acceptPromiseResolver,
                 nativeShow, subscriptions, shippingAddressChangeFn,
                 shippingOptionChangeFn, aborts>>

\* NativePayments.handleDetailsUpdate rejects (never on Android, which
\* resolves at once): both .then are skipped and .catch runs
HandleDetailsUpdateRejects(e) ==
  /\ ~IS_ANDROID
  /\ events[e].phase = "waitAdapter"
  /\ LET k == CatchReset(events, e, updating, "adapter")
     IN /\ events' = k.events
        /\ updating' = k.updating
  /\ lastCall' = NoCall
  /\ UNCHANGED <<other, canMakePaymentsPromises, platform, requestShipping, state, details, shippingAddress,
                 shippingOption, shippingAddressChangesCount, promises,
                 acceptPromiseResolver, nativeShow, subscriptions,
                 shippingAddressChangeFn, shippingOptionChangeFn, aborts>>

(* --------------------------- specifications --------------------------- *)
\* the accept/abort lifecycle of the request
LifecycleNext ==
  \/ Show
  \/ NativeShowResolves
  \/ NativeShowRejects
  \/ UserDismiss
  \/ StopRequest
  \/ Abort
  \/ \E a \in 1..Len(aborts) : NativeAbortResolves(a)
  \/ \E a \in 1..Len(aborts) : NativeAbortRejects(a)
  \/ \E payload \in AcceptPayloads : UserAccept(payload)

\* the update negotiation, with the lifecycle steps that change _state
UpdateNext ==
  \/ state = "created" /\ Show
  \/ UserDismiss
  \/ \E name \in {"shippingaddresschange", "shippingoptionchange"} : AddEventListener(name)
  \/ \E address \in Addresses, choice \in ListenerChoices : ShippingAddressChange(address, choice)
  \/ \E id \in OptionIds, choice \in ListenerChoices : ShippingOptionChange(id, choice)
  \/ \E e \in 1..Len(events), arg \in ListenerChoices : CallUpdateWith(e, arg)
  \/ \E e \in 1..Len(events), value \in UpdateDetails : DetailsPromiseResolves(e, value)
  \/ \E e \in 1..Len(events) : DetailsPromiseRejects(e)
  \/ \E e \in 1..Len(events), choice \in ListenerChoices, catches \in BOOLEAN :
       HandleDetailsUpdateResolves(e, choice, catches)
  \/ \E e \in 1..Len(events) : HandleDetailsUpdateRejects(e)

\* the lifecycle together with canMakePayments()
CapabilityNext ==
  \/ CanMakePayments
  \/ LifecycleNext

\* what decides the shippingAddress of the response: the shipping-address
\* signal, the negotiation its first iOS delivery starts, and user-accept
ShippingNext ==
  \/ state = "created" /\ Show
  \/ UserDismiss
  \/ StopRequest
  \/ \E address \in Addresses, choice \in ListenerChoices : ShippingAddressChange(address, choice)
  \/ \E e \in 1..Len(events), choice \in ListenerChoices, catches \in BOOLEAN :
       HandleDetailsUpdateResolves(e, choice, catches)
  \/ \E e \in 1..Len(events) : HandleDetailsUpdateRejects(e)
  \/ \E payload \in AcceptPayloads : UserAccept(payload)

\* a listener that answers the event it is handed with updateWith of valid
\* details that have shipping options, and no listener at all
Answers == [kind |-> "object", value |-> DetailsB, throws |-> FALSE]
Absent == [kind |-> "none", value |-> DetailsA, throws |-> FALSE]

\* the adapter call of a negotiation succeeds
AdapterSucceeds ==
  \E e \in 1..Len(events), choice \in {Answers, Absent} :
    HandleDetailsUpdateResolves(e, choice, FALSE)

\* an event without pending negotiation is collected
EventCollected == \E e \in 1..Len(events) : ForgetEvent(e)

\* the shipping signals of a request whose listeners always answer and whose
\* adapter always succeeds
RefireNext ==
  \/ state = "created" /\ Show
  \/ UserDismiss
  \/ \E name \in {"shippingaddresschange", "shippingoptionchange"} : AddEventListener(name)
  \/ \E address \in Addresses, choice \in {Answers, Absent} :
       ShippingAddressChange(address, choice)
  \/ \E id \in OptionIds, choice \in {Answers, Absent} : ShippingOptionChange(id, choice)
  \/ AdapterSucceeds
  \/ EventCollected

\* two instances and the signals of the native sheet
InstancesNext ==
  \/ \E det \in InitialDetails, listeners \in BOOLEAN, shown \in BOOLEAN :
       ConstructOther(det, listeners, shown)
  \/ state = "created" /\ Show
  \/ UserDismiss
  \/ \E payload \in AcceptPayloads : UserAccept(payload)
  \/ \E address \in Addresses : ShippingAddressChange(address, Absent)
  \/ \E id \in OptionIds : ShippingOptionChange(id, Absent)

Next == CapabilityNext \/ UpdateNext \/ ShippingNext \/ RefireNext \/ InstancesNext

Spec == Init /\ [][Next]_vars
SpecLifecycle == Init /\ [][LifecycleNext]_vars
SpecCapability == Init /\ [][CapabilityNext]_vars
SpecShipping == Init /\ [][ShippingNext]_vars
SpecInstances == Init /\ [][InstancesNext]_vars
\* _options.requestShipping is read by _handleUserAccept only
InitUpdate == Init /\ requestShipping = TRUE

SpecUpdate == InitUpdate /\ [][UpdateNext]_vars

\* every adapter call is answered and every dropped event is collected
SpecRefire ==
  InitUpdate /\ [][RefireNext]_vars /\ SF_vars(AdapterSucceeds) /\ WF_vars(EventCollected)

(* ------------------------------- claims ------------------------------- *)
\* the promise the accepted show() returned (0 before that) and whether it
\* is still outstanding
AcceptPromise == nativeShow.promise
Outstanding == AcceptPromise # 0 /\ promises[AcceptPromise].status = "pending"

ShowCalled == Len(promises') = Len(promises) + 1
AbortCalled == Len(aborts') = Len(aborts) + 1
DismissDone(a) == aborts[a].adapter = "pending" /\ aborts'[a].adapter = "ok"

\* C1: a show() call made while the state is interactive or closed rejects
\* the promise it returns with InvalidStateError and leaves the state as it
\* was, and at most one show() call of a request is ever accepted.
C1_ShowOnlyFromCreated ==
  [][/\ ShowCalled /\ state \in {"interactive", "closed"}
        => /\ promises'[Len(promises')].status = "InvalidStateError"
           /\ state' = state
     /\ Cardinality({p \in DOMAIN promises' :
                       promises'[p].status # "InvalidStateError"}) <= 1]_vars

C1_Witness ==
  /\ Len(promises) = 2
  /\ promises[1].status = "pending"
  /\ promises[2].status = "InvalidStateError"
  /\ state = "interactive"

\* C2: an abort() call made while the state is created or closed fails with
\* InvalidStateError, starts no adapter dismiss and changes neither the
\* state, the accept-promise nor the signal subscriptions.
C2_AbortRefusedOutsideInteractive ==
  [][AbortCalled /\ state \in {"created", "closed"}
       => /\ aborts'[Len(aborts')].status = "InvalidStateError"
          /\ aborts'[Len(aborts')].adapter = "none"
          /\ UNCHANGED <<state, promises, acceptPromiseResolver, subscriptions>>]_vars

C2_Witness ==
  /\ state = "closed"
  /\ Len(aborts) = 2
  /\ aborts[1] = [status |-> "InvalidStateError", adapter |-> "none"]
  /\ aborts[2] = [status |-> "InvalidStateError", adapter |-> "none"]
  /\ Len(promises) = 0

\* C3: an abort() whose adapter dismiss failed has itself failed with
\* InvalidStateError.
C3_FailedDismissFailsAbort ==
  \A a \in DOMAIN aborts :
    aborts[a].adapter = "failed" => aborts[a].status = "InvalidStateError"

\* C4: when the adapter dismiss of an abort() succeeds, the state becomes
\* closed and the outstanding accept-promise is rejected with AbortError.
C4_AbortClosesAndRejects ==
  [][\A a \in DOMAIN aborts :
       DismissDone(a)
         => /\ state' = "closed"
            /\ Outstanding => promises'[AcceptPromise].status = "AbortError"]_vars

\* C5: after show(), a user-dismiss signal closes the request, rejects the
\* outstanding accept-promise with AbortError and leaves no signal
\* subscription of the request active.
C5_DismissClosesRejectsUnsubscribes ==
  [][lastCall'.op = "userdismiss" /\ AcceptPromise # 0
       => /\ state' = "closed"
          /\ Outstanding => promises'[AcceptPromise].status = "AbortError"
          /\ subscriptions' = {}]_vars

\* C6: on either platform a user-accept signal delivered to an interactive
\* request whose accept-promise is outstanding resolves that promise with
\* a response carrying the request's id (stated here for the signals whose
\* paymentData the handler can parse).
C6_AcceptResolves ==
  [][(/\ lastCall'.op = "useraccept"
      /\ lastCall'.outcome # "SyntaxError"
      /\ state = "interactive"
      /\ Outstanding)
       => /\ promises'[AcceptPromise].status = "fulfilled"
          /\ promises'[AcceptPromise].response.requestId = RequestId]_vars

InFlight(ev) == ev.phase \in {"waitPromise", "waitAdapter"}

\* the step called updateWith on an event caller code already held
DirectUpdateWith == lastCall'.op = "updateWith" /\ Len(events') = Len(events)

\* the step built an event and called updateWith on it before returning
FreshUpdateWith == lastCall'.op = "updateWith" /\ Len(events') = Len(events) + 1

\* the step settled the adapter call of an earlier negotiation, whose
\* _resetEvent ran before the re-fired handler built the new event
Refired ==
  \E z \in DOMAIN events : events[z].phase = "waitAdapter" /\ events'[z].phase = "settled"

\* a negotiation of event e failed in this step: one that was pending, or
\* one that the updateWith call of this very step started
FailedNow(e, causes) ==
  /\ events'[e].cause \in causes
  /\ \/ e \notin DOMAIN events
     \/ events[e].phase # "settled"
     \/ lastCall' = Returned("updateWith", e, "DOMException") /\ ~events[e].waitForUpdate

\* _details as they were when the updateWith call was made whose negotiation
\* ends in this step: remembered by a pending event, and the details of the
\* state the step starts in when call and end are the same step
DetailsBefore(e) ==
  IF e \in DOMAIN events /\ InFlight(events[e]) THEN events[e].before ELSE details

\* C7: updateWith is accepted only when the request is interactive, its
\* updating flag is false and the event's waitForUpdate flag is false; every
\* other call fails with InvalidStateError and changes neither flag nor the
\* details; in particular a call made while a negotiation of the request is
\* still pending fails with InvalidStateError.
C7_UpdateWithGuard ==
  [][/\ DirectUpdateWith
        => LET e == lastCall'.ev
               allowed == /\ state = "interactive"
                          /\ ~updating
                          /\ ~events[e].waitForUpdate
           IN /\ lastCall'.outcome = "InvalidStateError" <=> ~allowed
              /\ ~allowed => UNCHANGED <<events, updating, details>>
              /\ (\E f \in DOMAIN events : InFlight(events[f]))
                   => lastCall'.outcome = "InvalidStateError"
     /\ FreshUpdateWith
        => LET e == lastCall'.ev
               allowed == state = "interactive" /\ (Refired \/ ~updating)
           IN /\ lastCall'.outcome = "InvalidStateError" <=> ~allowed
              /\ ~allowed => /\ ~events'[e].waitForUpdate
                             /\ details' = details
                             /\ ~Refired => updating' = updating
              /\ (\E f \in DOMAIN events :
                    InFlight(events[f]) /\ InFlight(events'[f]))
                   => lastCall'.outcome = "InvalidStateError"]_vars

\* C8: when a negotiation fails on validation of the new details or on the
\* rejection of the promise given to updateWith, both flags are false
\* afterwards and the failure reported is AbortError.
C8_FailureResetsFlags ==
  [][\A e \in DOMAIN events' :
       FailedNow(e, {"validation", "promise"})
         => /\ ~events'[e].waitForUpdate
            /\ ~updating'
            /\ events'[e].result = "AbortError"]_vars

\* C9: when the adapter's detail-update call of an accepted negotiation
\* fails, both flags are false afterwards and the negotiation fails with
\* AbortError.
C9_AdapterFailureResetsFlags ==
  [][\A e \in DOMAIN events' :
       FailedNow(e, {"adapter"})
         => /\ ~events'[e].waitForUpdate
            /\ ~updating'
            /\ events'[e].result = "AbortError"]_vars

C9_Witness ==
  \E e \in DOMAIN events :
    /\ events[e].cause = "adapter"
    /\ events[e].result = "AbortError"
    /\ ~events[e].waitForUpdate
    /\ ~updating
    /\ state = "interactive"

\* C10: whatever makes a negotiation fail (validation, rejected promise,
\* adapter), the details after the failure are those that were in effect
\* before updateWith was called.
C10_FailureKeepsDetails ==
  [][\A e \in DOMAIN events' :
       FailedNow(e, {"validation", "promise", "adapter"})
         => details' = DetailsBefore(e)]_vars

\* C11: the state only moves forward, created to interactive to closed: no
\* step takes a request that has left created back to created, and no step
\* changes the state of a closed request.
C11_StateMonotonic ==
  [][/\ state # "created" => state' # "created"
     /\ state = "closed" => state' = "closed"
     /\ state' # state => \/ state = "created" /\ state' \in {"interactive", "closed"}
                          \/ state = "interactive" /\ state' = "closed"]_vars

\* a closed request on which show() and abort() were then called
C11_Witness ==
  /\ state = "closed"
  /\ lastCall = Returned("abort", Len(aborts), "InvalidStateError")
  /\ Len(promises) = 2
  /\ promises[2].status = "InvalidStateError"
  /\ promises[1].status = "AbortError"


\* C12: at most one update negotiation of the request is in flight at any
\* time: while the details promise or the adapter call of an accepted
\* updateWith is pending, no updateWith on any event of the request is
\* accepted, an event of the re-fired shipping-option handler included.
C12_OneNegotiationInFlight ==
  Cardinality({e \in DOMAIN events : InFlight(events[e])}) <= 1

\* C13: the updating flag of the request is true exactly when some update
\* event of the request has its waitForUpdate flag true, however many events
\* of the request exist.
C13_FlagsAgree ==
  updating <=> \E e \in DOMAIN events : events[e].waitForUpdate

\* C14: the request holds an accept-promise resolver/rejecter pair exactly
\* when its state is interactive: none while created, one after the accepted
\* show(), none again once closed.
C14_PairIffInteractive ==
  acceptPromiseResolver # 0 <=> state = "interactive"

\* C15: the resolver/rejecter pair of the request changes only in a show()
\* call made while the state is created; a show() call that fails with
\* InvalidStateError leaves the pair as it was, so the pair stays that of
\* the promise the accepted show() returned.
C15_RefusedShowKeepsPair ==
  [][/\ acceptPromiseResolver' # acceptPromiseResolver
        => ShowCalled /\ state = "created"
     /\ ShowCalled /\ promises'[Len(promises')].status = "InvalidStateError"
        => acceptPromiseResolver' = acceptPromiseResolver
     /\ AcceptPromise' # 0 => acceptPromiseResolver' = AcceptPromise']_vars

\* C16: in a closed request none of the subscriptions made at construction
\* is active any more, whether abort(), the user-dismiss signal or
\* stopRequest() closed it.
C16_ClosedHasNoSubscriptions ==
  state = "closed" => subscriptions = {}

\* an iOS request, which had four subscriptions, closed by an abort() that
\* completed
C16_Witness ==
  /\ IS_IOS
  /\ state = "closed"
  /\ subscriptions = {}
  /\ \E a \in DOMAIN aborts : aborts[a].adapter = "ok"

\* C17: stopRequest() on a request that is not closed closes it and rejects
\* no promise, and no step taken after that rejects a promise of the
\* request that was pending: not the completion of an abort() call and not
\* the failure of the adapter's show call that were in flight.
C17_StopRequestNeverRejects ==
  [][/\ lastCall' = Returned("stopRequest", 0, "closed")
        => state' = "closed" /\ promises' = promises
     /\ lastCall = Returned("stopRequest", 0, "closed")
        => \A p \in DOMAIN promises :
             promises[p].status = "pending"
               => promises'[p].status \notin {"AbortError", "AdapterError"}]_vars

\* C18: whenever a user-accept signal resolves the accept-promise, the
\* shippingAddress of the response is null if options.requestShipping is not
\* true, whatever address the payload or an earlier shipping-address signal
\* carried, and it is the shippingAddress of the request if it is true.
C18_ResponseAddressFollowsRequestShipping ==
  [][\A p \in DOMAIN promises :
       (/\ lastCall'.op = "useraccept"
        /\ promises[p].status = "pending"
        /\ promises'[p].status = "fulfilled")
         => promises'[p].response.shippingAddress =
              (IF requestShipping THEN shippingAddress' ELSE null)]_vars

\* the request had an address from a shipping-address signal when the
\* user-accept signal resolved the promise, and requestShipping was not set
C18_Witness ==
  /\ ~requestShipping
  /\ shippingAddress # null
  /\ lastCall = Returned("useraccept", 0, "ok")
  /\ AcceptPromise # 0
  /\ promises[AcceptPromise].status = "fulfilled"
  /\ promises[AcceptPromise].response.shippingAddress = null

\* C19: a promise canMakePayments() has returned does not stay pending, on
\* iOS and on Android. No callback and no later step holds the resolve or
\* reject of that promise, so it settles before the call returns or never.
C19_CanMakePaymentsSettles ==
  \A i \in DOMAIN canMakePaymentsPromises : canMakePaymentsPromises[i] # "pending"

\* C20: a user-accept signal leaves the state of the request as it is, so
\* the request is still interactive once its accept-promise is resolved; an
\* abort() called then is accepted, its completion closes the request, and
\* the resolved accept-promise keeps its outcome.
C20_AcceptKeepsStateAbortStillCloses ==
  [][/\ lastCall'.op = "useraccept" => state' = state
     /\ (/\ AbortCalled
         /\ state = "interactive"
         /\ AcceptPromise # 0
         /\ promises[AcceptPromise].status = "fulfilled")
        => lastCall' = Returned("abort", Len(aborts'), "pending")
     /\ \A a \in DOMAIN aborts :
          DismissDone(a)
            => /\ state' = "closed"
               /\ \A p \in DOMAIN promises :
                    promises[p].status = "fulfilled" => promises'[p] = promises[p]]_vars

\* abort() has just been accepted on the request, still interactive after
\* the user-accept signal resolved its accept-promise
C20_Witness ==
  /\ lastCall = Returned("abort", 1, "pending")
  /\ state = "interactive"
  /\ AcceptPromise # 0
  /\ promises[AcceptPromise].status = "fulfilled"
  /\ promises[AcceptPromise].response.requestId = RequestId

\* C21: on iOS the first shipping-address-changed signal of a request hands
\* no event to caller code: not in the step that delivers it, and not when
\* the internal updateWith(current details) it starts is settled.
C21_FirstAddressSignalCallsNoListener ==
  [][/\ (IS_IOS /\ shippingAddressChangesCount = 0 /\ shippingAddressChangesCount' = 1)
        => \A e \in DOMAIN events' \ DOMAIN events : ~events'[e].caller
     /\ \A e \in DOMAIN events :
          (~events[e].caller /\ InFlight(events[e]) /\ ~InFlight(events'[e]))
            => \A f \in DOMAIN events' \ DOMAIN events : ~events'[f].caller]_vars

\* the adapter call of event e succeeds in this step and its negotiation
\* ends fulfilled
SucceededNow(e) ==
  /\ events[e].phase = "waitAdapter"
  /\ events'[e].phase = "settled"
  /\ events'[e].result = "fulfilled"

\* C22: when a negotiation succeeds on iOS with new details that have at
\* least one shipping option, shippingOption is the id of the first of them
\* and both flags are false; on Android, or with no shipping option in the
\* new details, shippingOption stays as it was.
C22_SuccessSelectsFirstOption ==
  [][\A e \in DOMAIN events :
       SucceededNow(e)
         => IF IS_IOS /\ Len(details.shippingOptions) > 0
            THEN /\ shippingOption' = details.shippingOptions[1]
                 /\ ~events'[e].waitForUpdate
                 /\ ~updating'
            ELSE shippingOption' = shippingOption]_vars

\* no negotiation of the request is pending
Quiescent == ~updating /\ \A e \in DOMAIN events : ~InFlight(events[e])

\* C23: with listeners that answer every event with updateWith of valid
\* details that have a shipping option, and an adapter that always succeeds,
\* the negotiation a shipping signal starts comes to an end: the request
\* gets back to a state with updating false and no negotiation pending.
C23_NegotiationQuiesces == ~Quiescent ~> Quiescent

\* C24: with a second instance alive in the process, no step taken while
\* the sheet of the request is shown (a user-dismiss, user-accept or
\* shipping signal of that sheet among them) changes the state, the
\* shipping fields or the accept-promise of the second instance or calls
\* one of its listeners.
C24_SignalsLeaveOtherInstanceAlone ==
  [][(other.state # "none" /\ state = "interactive") => other' = other]_vars

\* C25: once the request is closed no step hands an event to a listener of
\* it or changes its shippingAddress or shippingOption, the completion of
\* an adapter call that was in flight when it was closed included.
C25_ClosedRequestIsLeftAlone ==
  [][state = "closed"
       => /\ shippingAddress' = shippingAddress
          /\ shippingOption' = shippingOption
          /\ \A e \in DOMAIN events' \ DOMAIN events : ~events'[e].caller]_vars

====
